---------------------------- MODULE Spec2Model ----------------------------
(***************************************************************************)
(* Model of basic_cleaning_and_filtering.py: the Quotebank speaker filter  *)
(* (one pass per year, skipped when the output file exists) and the        *)
(* Wikidata enrichment helpers get_min_qid, map_qids_to_labels and         *)
(* add_wikidata_column_to_quote.                                           *)
(*                                                                         *)
(* A Python str that the code takes apart (a QID) is a sequence of         *)
(* one-character strings; text the code only copies or compares whole is   *)
(* a one-token sequence.  A Python call ends in an outcome record:         *)
(* ok = TRUE with the returned value, or ok = FALSE with the exception     *)
(* class that was raised.                                                  *)
(***************************************************************************)
EXTENDS Integers, Sequences, FiniteSets, TLC

VARIABLES
    minArg, minRes, minDone,
    lblArg, lblFail, lblRes, lblDone,
    call, ret, failed,
    year, status, inFiles, outFiles, visited, readLog, openLog, startOut

vars == << minArg, minRes, minDone,
           lblArg, lblFail, lblRes, lblDone,
           call, ret, failed,
           year, status, inFiles, outFiles, visited, readLog, openLog, startOut >>

minVars == << minArg, minRes, minDone >>
lblVars == << lblArg, lblFail, lblRes, lblDone >>
enrVars == << call, ret, failed >>
fltVars == << year, status, inFiles, outFiles, visited, readLog, openLog, startOut >>

-----------------------------------------------------------------------------
(* Bounds of the explored inputs.                                          *)

MaxQids == 3

MaxRows == 1

MaxRecQids == 2

MaxLines == 2

-----------------------------------------------------------------------------
(* Python values.                                                          *)

Ok(v) == [ok |-> TRUE, val |-> v, err |-> "none"]

Raise(e) == [ok |-> FALSE, val |-> <<>>, err |-> e]

SeqsUpTo(S, n) == UNION { [1..k -> S] : k \in 0..n }

Digits == <<"0", "1", "2", "3", "4", "5", "6", "7", "8", "9">>

IsDigit(c) == \E d \in 1..10 : Digits[d] = c

DigitVal(c) == (CHOOSE d \in 1..10 : Digits[d] = c) - 1

\* str.replace(old, ''): every occurrence of the character is removed.
StrRemove(s, old) == SelectSeq(s, LAMBDA c : c # old)

RECURSIVE DigitsValue(_)
DigitsValue(s) ==
    IF s = <<>> THEN 0
    ELSE 10 * DigitsValue(SubSeq(s, 1, Len(s) - 1)) + DigitVal(s[Len(s)])

\* int(str) over the alphabet of the model (letters and digits): a non-empty
\* run of digits parses, leading zeros included; anything else is ValueError.
PyInt(s) ==
    IF s # <<>> /\ \A i \in 1..Len(s) : IsDigit(s[i])
    THEN Ok(DigitsValue(s))
    ELSE Raise("ValueError")

\* str(int) for a natural number: the canonical decimal, no leading zeros.
RECURSIVE PyStr(_)
PyStr(n) ==
    IF n < 10 THEN <<Digits[n + 1]>>
    ELSE PyStr(n \div 10) \o <<Digits[(n % 10) + 1]>>

SeqMin(ns) == CHOOSE m \in { ns[i] : i \in 1..Len(ns) } :
                  \A i \in 1..Len(ns) : m <= ns[i]

-----------------------------------------------------------------------------
(* get_min_qid                                                             *)

\* qids_int = [int(qid.replace('Q', '')) for qid in qids]
QidsInt(qids) == [i \in 1..Len(qids) |-> PyInt(StrRemove(qids[i], "Q"))]

\* min(qids_int, default=0): an empty list yields Q0 instead of an error.
get_min_qid_default(qids) ==
    LET qids_int == QidsInt(qids)
    IN  IF \E i \in 1..Len(qids) : ~qids_int[i].ok
        THEN Raise("ValueError")
        ELSE IF qids = <<>>
        THEN Ok(<<"Q", "0">>)
        ELSE Ok(<<"Q">> \o PyStr(SeqMin([i \in 1..Len(qids) |-> qids_int[i].val])))

get_min_qid(qids) ==
    LET qids_int == QidsInt(qids)
    IN  IF \E i \in 1..Len(qids) : ~qids_int[i].ok
        THEN Raise("ValueError")
        ELSE IF qids = <<>>
        THEN Raise("ValueError")
        ELSE Ok(<<"Q">> \o PyStr(SeqMin([i \in 1..Len(qids) |-> qids_int[i].val])))

\* Identifier strings the candidate lists are drawn from.
Q5 == <<"Q", "5">>
Q05 == <<"Q", "0", "5">>
Q42 == <<"Q", "4", "2">>
Q7 == <<"Q", "7">>
QBare == <<"Q">>

MinQidStrs == {Q5, Q05, Q42, Q7, QBare}

MinIdle == /\ minArg = <<>>
           /\ minRes = Raise("idle")
           /\ minDone = FALSE


GetMinQid ==
    /\ ~minDone
    /\ minRes' = get_min_qid(minArg)
    /\ minDone' = TRUE
    /\ UNCHANGED << minArg, lblVars, enrVars, fltVars >>

-----------------------------------------------------------------------------
(* map_qids_to_labels                                                      *)

\* A Python dict with insertion order: a sequence of <<key, value>> pairs
\* with distinct keys.
DictKeys(d) == { d[i][1] : i \in 1..Len(d) }

DictGet(d, k) == d[CHOOSE i \in 1..Len(d) : d[i][1] = k][2]

\* d[k] = v: a present key keeps its position, a new key goes last.
DictSet(d, k, v) ==
    IF k \in DictKeys(d)
    THEN [i \in 1..Len(d) |-> IF d[i][1] = k THEN <<k, v>> ELSE d[i]]
    ELSE Append(d, <<k, v>>)

DictValues(d) == [i \in 1..Len(d) |-> d[i][2]]

Q6581097 == <<"Q", "6", "5", "8", "1", "0", "9", "7">>
Q6581072 == <<"Q", "6", "5", "8", "1", "0", "7", "2">>

\* str(wiki_client.get(qid, load=True).label): the label the service holds.
WikiLabel(qid) ==
    IF qid = Q6581097 THEN <<"male">>
    ELSE IF qid = Q6581072 THEN <<"female">>
    ELSE <<"label of">> \o qid

\* The loop of map_qids_to_labels from position i on; fails is the set of
\* positions whose lookup raises.
RECURSIVE MapLoop(_, _, _, _)
MapLoop(qids, fails, i, d) ==
    IF i > Len(qids) THEN d
    ELSE IF i \in fails
    THEN MapLoop(qids, fails, i + 1, d)
    ELSE MapLoop(qids, fails, i + 1, DictSet(d, qids[i], WikiLabel(qids[i])))

\* No try/except around the lookup: the first failure ends the call.
map_qids_to_labels_abort(qids, fails) ==
    IF fails \cap (1..Len(qids)) # {} THEN Raise("Exception")
    ELSE Ok(MapLoop(qids, fails, 1, <<>>))

map_qids_to_labels(qids, fails) == Ok(MapLoop(qids, fails, 1, <<>>))

LblQidStrs == {Q6581097, Q6581072, Q5}

LblIdle == /\ lblArg = <<>>
           /\ lblFail = {}
           /\ lblRes = Raise("idle")
           /\ lblDone = FALSE

\* One call; the service fails on the lookups at the positions in lblFail.
MapQidsToLabels ==
    /\ ~lblDone
    /\ lblRes' = map_qids_to_labels(lblArg, lblFail)
    /\ lblDone' = TRUE
    /\ UNCHANGED << lblArg, lblFail, minVars, enrVars, fltVars >>

-----------------------------------------------------------------------------
(* add_wikidata_column_to_quote                                            *)

\* A quote is a Python dict read from JSON: a function from its keys to
\* values; every value here is a list of strings.
HasKey(d, k) == k \in DOMAIN d

\* d[k] = v on a quote.
SetItem(d, k, v) ==
    IF k \in DOMAIN d THEN [d EXCEPT ![k] = v] ELSE d @@ (k :> v)

\* A cell of the speaker-attributes DataFrame: None, a numpy array of
\* strings, or a plain str (the id column).
NoneCell == [kind |-> "None", val |-> <<>>]

ArrayCell(xs) == [kind |-> "array", val |-> xs]

StrCell(x) == [kind |-> "str", val |-> <<x>>]

\* speakers_attributes[speakers_attributes['id'] == speaker_qid]
RowsOf(speakers_attributes, speaker_qid) ==
    SelectSeq(speakers_attributes.rows,
              LAMBDA row : row["id"] = StrCell(speaker_qid))

\* labels = {i: val for i, val in enumerate(labels_list)}
EnumerateDict(labels_list) ==
    [i \in 1..Len(labels_list) |-> <<i - 1, labels_list[i]>>]

\* What a call leaves behind: the outcome, the dict object the caller passed
\* in as it is when the call ends (orig), and the identifiers handed to the
\* label service.
EnrichOut(out, orig, lookups) ==
    [ok |-> out.ok, val |-> out.val, err |-> out.err,
     orig |-> orig, lookups |-> lookups]

\* No None check: .tolist() is called on None.
FillColumnNoNoneCheck(quote_data, column_name, cell, is_qid, fails) ==
    IF cell.kind # "array"
    THEN [out |-> Raise("AttributeError"), lookups |-> <<>>]
    ELSE LET labels == IF is_qid
                       THEN map_qids_to_labels(cell.val, fails).val
                       ELSE EnumerateDict(cell.val)
         IN  [out |-> Ok(SetItem(quote_data, column_name,
                                 quote_data[column_name] \o DictValues(labels))),
              lookups |-> IF is_qid THEN cell.val ELSE <<>>]

\* Lines 159-177: from the None check to the return.  Every label is
\* appended to the list quote_data holds under column_name.
FillColumn(quote_data, column_name, cell, is_qid, fails) ==
    IF cell.kind = "None" THEN [out |-> Ok(quote_data), lookups |-> <<>>]
    ELSE IF cell.kind # "array"
    THEN [out |-> Raise("AttributeError"), lookups |-> <<>>]
    ELSE LET labels == IF is_qid
                       THEN map_qids_to_labels(cell.val, fails).val
                       ELSE EnumerateDict(cell.val)
         IN  [out |-> Ok(SetItem(quote_data, column_name,
                                 quote_data[column_name] \o DictValues(labels))),
              lookups |-> IF is_qid THEN cell.val ELSE <<>>]

\* quote_data.setdefault(column_name, []): a list already there is kept.
InitColumnSetdefault(quote_data, column_name) ==
    IF HasKey(quote_data, column_name) THEN quote_data
    ELSE SetItem(quote_data, column_name, <<>>)

\* Line 151: quote_data[column_name] = []
InitColumn(quote_data, column_name) == SetItem(quote_data, column_name, <<>>)

\* No copy is made: the caller's dict is always the one that is changed.
CallerSeesAlias(inplace, quote_data_original, quote_data) == quote_data

\* Lines 135-138: with inplace the caller's dict and quote_data are one
\* object; otherwise quote_data is a copy and the caller's dict stays as it
\* was passed in.
CallerSees(inplace, quote_data_original, quote_data) ==
    IF inplace THEN quote_data ELSE quote_data_original

\* Lines 151-161: the column is initialised, then the speaker is resolved.
ResolveAndFill(quote_data_original, quote_data, column_name, speakers_attributes, inplace, is_qid, fails) ==
    LET qd == InitColumn(quote_data, column_name)
        orig == CallerSees(inplace, quote_data_original, qd)
    IN  IF ~HasKey(qd, "qids")
        THEN EnrichOut(Raise("KeyError"), orig, <<>>)
        ELSE LET speaker_qid == get_min_qid(qd["qids"])
             IN  IF ~speaker_qid.ok
                 THEN EnrichOut(Raise(speaker_qid.err), orig, <<>>)
                 ELSE LET rows == RowsOf(speakers_attributes, speaker_qid.val)
                      IN  IF rows = <<>>
                          THEN EnrichOut(Raise("IndexError"), orig, <<>>)
                          ELSE LET r == FillColumn(qd, column_name,
                                                   rows[1][column_name],
                                                   is_qid, fails)
                               IN  IF r.out.ok
                                   THEN EnrichOut(r.out,
                                            CallerSees(inplace,
                                                quote_data_original, r.out.val),
                                            r.lookups)
                                   ELSE EnrichOut(r.out, orig, r.lookups)

\* The guard of lines 141-143 tests ignore_existing instead of its negation.
add_wikidata_column_to_quote_guard(quote_data_original, column_name, speakers_attributes, inplace, ignore_existing, is_qid, fails) ==
    LET quote_data == quote_data_original
    IN  IF ignore_existing /\ HasKey(quote_data, column_name)
        THEN EnrichOut(Raise("Exception: column exists"),
                       quote_data_original, <<>>)
        ELSE IF column_name \notin speakers_attributes.columns
        THEN EnrichOut(Raise("Exception: no such column"),
                       quote_data_original, <<>>)
        ELSE ResolveAndFill(quote_data_original, quote_data, column_name,
                            speakers_attributes, inplace, is_qid, fails)

add_wikidata_column_to_quote(quote_data_original, column_name, speakers_attributes, inplace, ignore_existing, is_qid, fails) ==
    LET quote_data == quote_data_original
    IN  IF ~ignore_existing /\ HasKey(quote_data, column_name)
        THEN EnrichOut(Raise("Exception: column exists"),
                       quote_data_original, <<>>)
        ELSE IF column_name \notin speakers_attributes.columns
        THEN EnrichOut(Raise("Exception: no such column"),
                       quote_data_original, <<>>)
        ELSE ResolveAndFill(quote_data_original, quote_data, column_name,
                            speakers_attributes, inplace, is_qid, fails)

\* The inputs of the explored calls.  The table has the id column and one
\* attribute column, gender or qids; the column asked for is one of these
\* or the id column.
EnrColumnNames == {"gender", "qids", "id"}

AttrColumns == {"gender", "qids"}

\* The values an attribute cell holds: absent, or an array of identifiers,
\* empty, single, repeated or mixed.
CellLists == { <<>>, <<Q6581097>>, <<Q6581097, Q6581097>>,
               <<Q6581097, Q6581072>>, <<Q6581072, Q6581097>> }

Cells == {NoneCell} \cup { ArrayCell(xs) : xs \in CellLists }

RowIds == {Q5, Q42}

Rows(attr) == { ("id" :> StrCell(i)) @@ (attr :> c) : i \in RowIds, c \in Cells }

Tables ==
    UNION { { [columns |-> {"id", attr}, rows |-> rs] :
                rs \in SeqsUpTo(Rows(attr), MaxRows) } : attr \in AttrColumns }

EnrQidStrs == {Q5, Q42}

OldValue == << <<"old">> >>

\* A quote with its qids and urls, and with or without a value already
\* stored under the column about to be added.
Quotes(column_name) ==
    { IF has /\ ~HasKey(q, column_name)
      THEN SetItem(q, column_name, OldValue) ELSE q :
        has \in BOOLEAN,
        q \in { ("qids" :> qs) @@ ("urls" :> << <<"http://x">> >>) :
                  qs \in SeqsUpTo(EnrQidStrs, MaxRecQids) } }

EnrIdle == /\ call = <<>>
           /\ ret = <<>>
           /\ failed = {}

EnrInit ==
    /\ \E column_name \in EnrColumnNames, table \in Tables,
          is_qid \in BOOLEAN :
          \E quote \in Quotes(column_name) :
             call = [quote |-> quote, column_name |-> column_name,
                     speakers_attributes |-> table, is_qid |-> is_qid]
    /\ ret = <<>>
    /\ failed = {}

\* One entry of ret: the flags of the call and what it left behind.
CallRecord(inplace, ignore_existing, arg, out) ==
    [inplace |-> inplace, ignore_existing |-> ignore_existing,
     arg |-> arg, out |-> out]

\* The first call on the quote.  The label service fails on the lookups at
\* the positions in fails.
Enrich ==
    /\ ret = <<>>
    /\ \E inplace \in BOOLEAN, ignore_existing \in BOOLEAN :
          LET f(fails) == add_wikidata_column_to_quote(call.quote,
                              call.column_name, call.speakers_attributes,
                              inplace, ignore_existing, call.is_qid, fails)
          IN  \E fails \in SUBSET (1..Len(f({}).lookups)) :
                 /\ ret' = << CallRecord(inplace, ignore_existing,
                                         call.quote, f(fails)) >>
                 /\ failed' = fails
    /\ UNCHANGED << call, minVars, lblVars, fltVars >>

\* The same call made again on the record the first call returned, with the
\* label service answering as it did the first time.
EnrichAgain ==
    /\ Len(ret) = 1
    /\ ret[1].out.ok
    /\ LET out == add_wikidata_column_to_quote(ret[1].out.val,
                      call.column_name, call.speakers_attributes,
                      ret[1].inplace, ret[1].ignore_existing,
                      call.is_qid, failed)
       IN  ret' = Append(ret, CallRecord(ret[1].inplace,
                                         ret[1].ignore_existing,
                                         ret[1].out.val, out))
    /\ UNCHANGED << call, failed, minVars, lblVars, fltVars >>

-----------------------------------------------------------------------------
(* The filter stage: for year in range(2015, 2021)                         *)

FirstYear == 2015

LastYear == 2020

Years == FirstYear..LastYear

\* JSON values of a line's members: a string or null.
JStr(x) == [t |-> "str", s |-> x]

JNull == [t |-> "null", s |-> ""]

\* A line of a file: the text of a JSON object, its members in the order
\* they are written (a name may be written twice), or text that is no JSON.
ObjectLine(members) == [kind |-> "object", members |-> members]

MalformedLine == [kind |-> "malformed", members |-> <<>>]

\* The dict json.loads builds from the members: a repeated name keeps its
\* first position and its last value.
RECURSIVE DictOf(_, _)
DictOf(members, d) ==
    IF members = <<>> THEN d
    ELSE DictOf(Tail(members), DictSet(d, Head(members)[1], Head(members)[2]))

json_loads(line) ==
    IF line.kind = "object" THEN Ok(DictOf(line.members, <<>>))
    ELSE Raise("JSONDecodeError")

\* json.dumps writes the dict's items in the dict's order.
json_dumps(instance) == ObjectLine(instance)

\* A null speaker is taken for the sentinel as well.
IsNoneSpeakerOrNull(instance) ==
    DictGet(instance, "speaker") \in {JStr("None"), JNull}

\* instance['speaker'] == 'None'
IsNoneSpeaker(instance) == DictGet(instance, "speaker") = JStr("None")

\* Lines 57-65: the loop over the lines from position i on, with the lines
\* written so far; it ends at the end of the file or at the first exception.
RECURSIVE FilterLoop(_, _, _)
FilterLoop(s_file, i, written) ==
    IF i > Len(s_file) THEN [written |-> written, err |-> "none"]
    ELSE LET instance == json_loads(s_file[i])
         IN  IF ~instance.ok THEN [written |-> written, err |-> instance.err]
             ELSE IF "speaker" \notin DictKeys(instance.val)
             THEN [written |-> written, err |-> "KeyError"]
             ELSE IF IsNoneSpeaker(instance.val)
             THEN FilterLoop(s_file, i + 1, written)
             ELSE FilterLoop(s_file, i + 1,
                             Append(written, json_dumps(instance.val)))

\* A file of the output folder: absent, or present with its lines.
NoFile == [exists |-> FALSE, lines |-> <<>>]

FileOf(lines) == [exists |-> TRUE, lines |-> lines]

\* The existence check is missing: every year is filtered again.
OutputExistsNever(y) == FALSE

\* os.path.isfile(path_to_out)
OutputExists(y) == outFiles[y].exists

\* One iteration of the loop over the years (lines 42-65): the year is
\* skipped when its output exists; otherwise the input is read and the
\* output opened and written.  An exception ends the script, and the lines
\* written before it stay in the output file.
FilterYear ==
    /\ status = "running"
    /\ year <= LastYear
    /\ visited' = Append(visited, year)
    /\ IF OutputExists(year)
       THEN /\ year' = year + 1
            /\ status' = IF year = LastYear THEN "done" ELSE "running"
            /\ UNCHANGED << outFiles, readLog, openLog >>
       ELSE LET r == FilterLoop(inFiles[year], 1, <<>>)
            IN  /\ readLog' = readLog \cup {year}
                /\ openLog' = openLog \cup {year}
                /\ outFiles' = [outFiles EXCEPT ![year] = FileOf(r.written)]
                /\ IF r.err = "none"
                   THEN /\ year' = year + 1
                        /\ status' = IF year = LastYear THEN "done"
                                     ELSE "running"
                   ELSE /\ year' = year
                        /\ status' = "error"
    /\ UNCHANGED << inFiles, startOut, minVars, lblVars, enrVars >>

\* The script is run again after it ended.
Rerun ==
    /\ status \in {"done", "error"}
    /\ year' = FirstYear
    /\ status' = "running"
    /\ visited' = <<>>
    /\ readLog' = {}
    /\ openLog' = {}
    /\ startOut' = outFiles
    /\ UNCHANGED << inFiles, outFiles, minVars, lblVars, enrVars >>

\* The lines the input files are made of.
LNone == ObjectLine(<< <<"speaker", JStr("None")>>,
                       <<"quotation", JStr("q1")>> >>)
LAlice == ObjectLine(<< <<"quotation", JStr("q2")>>,
                        <<"speaker", JStr("Alice")>> >>)
LNull == ObjectLine(<< <<"speaker", JNull>> >>)
LDup == ObjectLine(<< <<"speaker", JStr("None")>>,
                      <<"speaker", JStr("Bob")>> >>)
LNoSpeaker == ObjectLine(<< <<"quotation", JStr("q3")>> >>)

Lines == {LNone, LAlice, LNull, LDup, LNoSpeaker, MalformedLine}

\* The lines of all input files together, each with its year, year by year.
Placements ==
    { p \in SeqsUpTo(Years \X Lines, MaxLines) :
        \A i \in 1..Len(p) : \A j \in 1..Len(p) :
           i < j => p[i][1] <= p[j][1] }

LinesOfYear(p, y) ==
    LET mine == SelectSeq(p, LAMBDA e : e[1] = y)
    IN  [i \in 1..Len(mine) |-> mine[i][2]]

\* An output file left in the folder before the first run; no run of the
\* filter writes such a file.
StaleFile == FileOf(<<LNone>>)

SampleInput == <<LNone, LAlice>>

FltIdle == /\ year = 0
           /\ status = "idle"
           /\ inFiles = <<>>
           /\ outFiles = <<>>
           /\ visited = <<>>
           /\ readLog = {}
           /\ openLog = {}
           /\ startOut = <<>>

\* Either an empty output folder and any input files of MaxLines lines in
\* all, or the sample input for every year and any set of years whose
\* output is already there.
FltInit ==
    /\ \/ /\ \E p \in Placements :
                inFiles = [y \in Years |-> LinesOfYear(p, y)]
          /\ outFiles = [y \in Years |-> NoFile]
       \/ /\ inFiles = [y \in Years |-> SampleInput]
          /\ \E have \in SUBSET Years :
                outFiles = [y \in Years |->
                              IF y \in have THEN StaleFile ELSE NoFile]
    /\ year = FirstYear
    /\ status = "running"
    /\ visited = <<>>
    /\ readLog = {}
    /\ openLog = {}
    /\ startOut = outFiles

-----------------------------------------------------------------------------
(* Specifications.                                                         *)

MinInit == /\ minArg \in SeqsUpTo(MinQidStrs, MaxQids)
           /\ minRes = Raise("idle")
           /\ minDone = FALSE

InitMin == MinInit /\ LblIdle /\ EnrIdle /\ FltIdle

NextMin == GetMinQid

SpecMin == InitMin /\ [][NextMin]_vars

LblInit == /\ lblArg \in SeqsUpTo(LblQidStrs, MaxQids)
           /\ lblFail \in SUBSET (1..Len(lblArg))
           /\ lblRes = Raise("idle")
           /\ lblDone = FALSE

InitLbl == MinIdle /\ LblInit /\ EnrIdle /\ FltIdle

NextLbl == MapQidsToLabels

SpecLbl == InitLbl /\ [][NextLbl]_vars

InitEnr == MinIdle /\ LblIdle /\ EnrInit /\ FltIdle

NextEnr == Enrich \/ EnrichAgain

SpecEnr == InitEnr /\ [][NextEnr]_vars

InitFlt == MinIdle /\ LblIdle /\ EnrIdle /\ FltInit

NextFlt == FilterYear \/ Rerun

SpecFlt == InitFlt /\ [][NextFlt]_vars


-----------------------------------------------------------------------------
(* Properties.                                                             *)

\* An identifier of the form <prefix><integer>: letters, then digits.
RECURSIVE TrailingDigits(_)
TrailingDigits(s) ==
    IF s = <<>> \/ ~IsDigit(s[Len(s)]) THEN 0
    ELSE 1 + TrailingDigits(SubSeq(s, 1, Len(s) - 1))

IsCandidateId(s) ==
    LET k == TrailingDigits(s)
    IN  /\ k >= 1
        /\ k < Len(s)
        /\ \A i \in 1..(Len(s) - k) : ~IsDigit(s[i])

SuffixValue(s) ==
    DigitsValue(SubSeq(s, Len(s) - TrailingDigits(s) + 1, Len(s)))

Elements(xs) == { xs[i] : i \in 1..Len(xs) }

\* C1: for a non-empty list of identifiers of the form <prefix><integer>,
\* get_min_qid returns one of the list's own elements, and its integer
\* suffix is the least of the list's suffixes.
C1_MinQidIsElement ==
    (minDone /\ minArg # <<>> /\ \A q \in Elements(minArg) : IsCandidateId(q))
        => /\ minRes.ok
           /\ minRes.val \in Elements(minArg)
           /\ \A q \in Elements(minArg) : SuffixValue(minRes.val) <= SuffixValue(q)

\* C7: map_qids_to_labels always returns; the keys of the mapping are the
\* identifiers with a lookup that succeeded, each with the label of the
\* service, whatever lookups failed before or after it.
C7_PartialLabels ==
    lblDone =>
        /\ lblRes.ok
        /\ DictKeys(lblRes.val) =
              { lblArg[i] : i \in (1..Len(lblArg)) \ lblFail }
        /\ \A k \in DictKeys(lblRes.val) : DictGet(lblRes.val, k) = WikiLabel(k)

\* A lookup failed and a later lookup of another identifier succeeded.
C7_Witness ==
    /\ lblDone
    /\ \E i \in lblFail : \E j \in (1..Len(lblArg)) \ lblFail :
          /\ i < j
          /\ lblArg[i] # lblArg[j]
          /\ lblArg[j] \in DictKeys(lblRes.val)
          /\ lblArg[i] \notin DictKeys(lblRes.val)

\* The calls made so far.
Calls == { ret[i] : i \in 1..Len(ret) }

ColumnName == call.column_name

Table == call.speakers_attributes

\* C6: get_min_qid raises on an empty list, and a call of
\* add_wikidata_column_to_quote on a record whose qids are empty ends in an
\* error, never in a returned record.
C6_EmptyQidsFail ==
    \A c \in Calls :
        c.arg["qids"] = <<>> =>
            /\ ~get_min_qid(c.arg["qids"]).ok
            /\ ~c.out.ok

\* A call on a record with no qids got as far as get_min_qid and failed there.
C6_Witness ==
    \E c \in Calls :
        /\ c.arg["qids"] = <<>>
        /\ ColumnName \in Table.columns
        /\ c.ignore_existing
        /\ c.out.err = "ValueError"

\* C4: with ignore_existing=False a call whose target field is already a
\* key of the record fails with the naming-collision error, whatever the
\* other arguments.
C4_CollisionFails ==
    \A c \in Calls :
        (~c.ignore_existing /\ HasKey(c.arg, ColumnName))
            => /\ ~c.out.ok
               /\ c.out.err = "Exception: column exists"

\* Collisions on a field that was there from the start, and on a field the
\* first call added.
C4_Witness ==
    /\ Len(ret) = 2
    /\ ~HasKey(call.quote, ColumnName)
    /\ ~ret[2].ignore_existing
    /\ ret[2].out.err = "Exception: column exists"


\* The identifier the call selects and its row's value for the column: the
\* minimum of the record's qids, looked up in the reference table.  A call
\* for the column qids has emptied the qids before it selects.
Selected(c) ==
    get_min_qid(IF ColumnName = "qids" THEN <<>> ELSE c.arg["qids"])

SelectedRows(c) == RowsOf(Table, Selected(c).val)

HasSelectedCell(c) ==
    /\ ColumnName \in Table.columns
    /\ Selected(c).ok
    /\ SelectedRows(c) # <<>>

SelectedCell(c) == SelectedRows(c)[1][ColumnName]

\* The row of the least of the record's qids, as the record was passed in.
ArgRows(c) == RowsOf(Table, get_min_qid(c.arg["qids"]).val)

\* C3 as stated: when the column is in the table and the selected row's
\* value is None, the call returns the record exactly as it was passed in.
C3_NoneLeavesRecordUnchanged ==
    \A c \in Calls :
        (/\ ColumnName \in Table.columns
         /\ get_min_qid(c.arg["qids"]).ok
         /\ ArgRows(c) # <<>>
         /\ ArgRows(c)[1][ColumnName].kind = "None")
            => /\ c.out.ok
               /\ c.out.val = c.arg

\* C3 amended: when the column, other than qids, is in the table, the
\* naming-collision guard does not fire and the selected row's value is
\* None, the call raises no error and returns the record with the target
\* field set to the empty list (created, or replacing what was there) and
\* every other key as it was.
C3_NoneGivesEmptyList ==
    \A c \in Calls :
        (/\ HasSelectedCell(c)
         /\ SelectedCell(c).kind = "None"
         /\ (c.ignore_existing \/ ~HasKey(c.arg, ColumnName)))
            => /\ c.out.ok
               /\ DOMAIN c.out.val = DOMAIN c.arg \cup {ColumnName}
               /\ c.out.val[ColumnName] = <<>>
               /\ \A k \in DOMAIN c.arg \ {ColumnName} :
                     c.out.val[k] = c.arg[k]

\* A None value met by a record without the field, and by one that had it.
C3_Witness ==
    \E c \in Calls :
        /\ HasSelectedCell(c)
        /\ SelectedCell(c).kind = "None"
        /\ HasKey(c.arg, ColumnName)
        /\ c.arg[ColumnName] = OldValue
        /\ c.out.ok
        /\ c.out.val[ColumnName] = <<>>

\* C5: with ignore_existing=True, the call made again on the record a
\* successful call returned, with the same column, table, is_qid and
\* service answers, returns a record equal to the first result.
C5_Idempotent ==
    (Len(ret) = 2 /\ ret[1].ignore_existing)
        => /\ ret[2].out.ok
           /\ ret[2].out.val = ret[1].out.val
           /\ ret[2].out.orig = ret[1].out.val

\* A second call on a record whose field the first call filled with labels.
C5_Witness ==
    /\ Len(ret) = 2
    /\ ret[1].ignore_existing
    /\ ret[1].out.val[ColumnName] # <<>>
    /\ ret[2].out.ok
    /\ ret[2].inplace

\* The identifiers the selected row holds for the column, when it holds any.
HasSelectedArray(c) ==
    /\ HasSelectedCell(c)
    /\ SelectedCell(c).kind = "array"

\* C9: a call that returns on a row holding the identifiers v1..vn sets the
\* field, with is_qid=True, to one label per element of the row's sequence
\* in the row's order, repeated identifiers giving repeated labels, and with
\* is_qid=False to the row's sequence itself.
C9_OneLabelPerElement ==
    \A c \in Calls :
        (c.out.ok /\ HasSelectedArray(c))
            => LET v == SelectedCell(c).val
               IN  /\ (call.is_qid /\ failed = {})
                          => c.out.val[ColumnName] =
                                [i \in 1..Len(v) |-> WikiLabel(v[i])]
                   /\ ~call.is_qid => c.out.val[ColumnName] = v

\* What went wrong in a call that raised after the guards.
LateErrors == {"ValueError", "IndexError", "KeyError", "AttributeError"}

GuardErrors == {"Exception: column exists", "Exception: no such column"}

\* C10 as stated: after a call that ends in an error (naming collision,
\* missing column, empty qids, no row for the primary identifier) the
\* caller's record is as it was before the call, with inplace or without;
\* and with inplace=False it is as it was after every call.
C10_ErrorsLeaveCallerRecord ==
    \A c \in Calls :
        /\ (/\ ~c.out.ok
            /\ \/ c.out.err \in GuardErrors
               \/ c.out.err = "IndexError"
               \/ c.out.err = "ValueError" /\ c.arg["qids"] = <<>>)
              => c.out.orig = c.arg
        /\ ~c.inplace => c.out.orig = c.arg

\* C10 amended: after a naming-collision or missing-column error the
\* caller's record is as it was before the call, with inplace or without;
\* with inplace=False it is as it was after every call; with inplace=True a
\* call that raises later (empty qids, no row for the primary identifier)
\* leaves the caller's record with the target field set to the empty list
\* and every other key as it was.
C10_GuardErrorsLeaveCallerRecord ==
    \A c \in Calls :
        /\ c.out.err \in GuardErrors => c.out.orig = c.arg
        /\ ~c.inplace => c.out.orig = c.arg
        /\ (c.inplace /\ c.out.err \in LateErrors)
              => c.out.orig = SetItem(c.arg, ColumnName, <<>>)

\* With inplace=True a call failed for want of a row and left the new,
\* empty field behind in the caller's record.
C10_Witness ==
    \E c \in Calls :
        /\ c.inplace
        /\ c.out.err = "IndexError"
        /\ ~HasKey(c.arg, ColumnName)
        /\ HasKey(c.out.orig, ColumnName)

\* The record a line holds, as a mapping from names to values.
RecordOf(line) ==
    LET d == json_loads(line).val
    IN  [k \in DictKeys(d) |-> DictGet(d, k)]

\* A well-formed line: a JSON object with a speaker.
WellFormed(line) ==
    /\ line.kind = "object"
    /\ \E i \in 1..Len(line.members) : line.members[i][1] = "speaker"

WellFormedFile(f) == \A i \in 1..Len(f) : WellFormed(f[i])

RecordsOf(f) == [i \in 1..Len(f) |-> RecordOf(f[i])]

Survivors(f) ==
    SelectSeq(RecordsOf(f), LAMBDA r : r["speaker"] # JStr("None"))

\* C2: the output the stage writes for a year whose input holds only
\* well-formed lines is the input's records whose speaker is not 'None',
\* each once, in input order, field for field; the others are absent.
C2_FilterKeepsExactlyResolved ==
    \A y \in openLog :
        WellFormedFile(inFiles[y])
            => /\ ~(status = "error" /\ year = y)
               /\ outFiles[y].exists
               /\ \A i \in 1..Len(outFiles[y].lines) :
                     outFiles[y].lines[i].kind = "object"
               /\ RecordsOf(outFiles[y].lines) = Survivors(inFiles[y])

\* A year's file with a 'None' record and a record that stays.
C2_Witness ==
    \E y \in openLog :
        /\ WellFormedFile(inFiles[y])
        /\ Len(inFiles[y]) = 2
        /\ Len(outFiles[y].lines) = 1
        /\ RecordOf(inFiles[y][1])["speaker"] = JStr("None")

\* The years in the order of the loop.
YearsInOrder(n) == [i \in 1..n |-> FirstYear + i - 1]

C8_SkipsExisting ==
    /\ \A y \in Years :
          startOut[y].exists
              => /\ y \notin readLog
                 /\ y \notin openLog
                 /\ outFiles[y] = startOut[y]
    /\ visited = YearsInOrder(Len(visited))
    /\ status = "done"
          => /\ Len(visited) = LastYear - FirstYear + 1
             /\ \A y \in Years : outFiles[y].exists

C8_CompleteStaysComplete ==
    (\A y \in Years : outFiles[y].exists) => outFiles' = outFiles

\* C8: a year whose output file exists when the stage starts is neither
\* read nor written and its file keeps its content; once all six outputs
\* exist no run changes any of them; the years are taken in ascending order
\* 2015..2020.
C8_RerunIdempotent ==
    /\ []C8_SkipsExisting
    /\ [][C8_CompleteStaysComplete]_vars

\* A run, after a run that wrote outputs, that went through all six years
\* and opened nothing.
C8_Witness ==
    /\ status = "done"
    /\ openLog = {}
    /\ readLog = {}
    /\ visited = YearsInOrder(6)
    /\ \E y \in Years : outFiles[y].exists /\ outFiles[y] # StaleFile
=============================================================================
